---- MODULE Spec2Model ----
(***************************************************************************)
(* FreeAIRouter (services/ai_router.py): a fallback router over a fixed    *)
(* table of inference providers, with a per-provider daily request counter *)
(* that is reset lazily when the calendar date changes.                    *)
(*                                                                         *)
(* Python values are encoded with one convention: an Optional[T] is the    *)
(* empty sequence (None) or the one-element sequence <<v>>.                *)
(*                                                                         *)
(* route_text / route_vision are coroutines run by one asyncio event loop: *)
(* the code between two awaits is one atomic step.  A routing call is      *)
(* therefore two kinds of step: the call's start (reset, admission checks  *)
(* up to the first admissible candidate, whose adapter is then awaited)    *)
(* and the resumption when the awaited adapter finishes (increment and     *)
(* return, or the admission checks of the following candidates).           *)
(***************************************************************************)
EXTENDS Integers, Sequences, FiniteSets, TLC

\* ---- bounds of the model ----
NumTasks == 2      \* routing calls that may be in flight together
MaxCalls == 3      \* routing calls started in one behaviour
MaxDay   == 1      \* calendar dates 0..MaxDay
GeminiLimit == 2   \* stands for gemini's rate_limit of 1500
GroqLimit == 1     \* stands for groq's rate_limit of 14400

Tasks == 1..NumTasks
Days  == 0..MaxDay

\* ---- Optional[T] ----
None == <<>>
Some(v) == <<v>>
\* Python truthiness of an Optional[int] and of an Optional[str]
TruthyInt(o) == o # None /\ o[1] # 0
TruthyStr(o) == o # None /\ o[1] # ""

\* ---- the provider table (FreeAIRouter.__init__) ----
ProviderNames == {"opencode_zen", "gemini", "mistral", "groq", "huggingface"}

provider_type(name) ==
    CASE name = "opencode_zen" -> "text"
      [] name = "gemini"       -> "vision"
      [] name = "mistral"      -> "text"
      [] name = "groq"         -> "both"
      [] name = "huggingface"  -> "text"

\* ProviderConfig.model
provider_model(name) ==
    CASE name = "opencode_zen" -> Some("grok-code")
      [] name = "gemini"       -> None
      [] name = "mistral"      -> Some("mistral-small-latest")
      [] name = "groq"         -> Some("llama-3.2-90b-vision-preview")
      [] name = "huggingface"  -> None

\* ProviderConfig.rate_limit: gemini and groq carry a daily limit (1500 and
\* 14400 in the source, scaled down here), the others have none.
provider_rate_limit(name) ==
    CASE name = "opencode_zen" -> None
      [] name = "gemini"       -> Some(GeminiLimit)
      [] name = "mistral"      -> None
      [] name = "groq"         -> Some(GroqLimit)
      [] name = "huggingface"  -> None

text_providers   == <<"opencode_zen", "mistral", "groq", "huggingface">>
vision_providers == <<"gemini", "groq">>

Classes == {"text", "vision"}
Order(cls) == IF cls = "text" THEN text_providers ELSE vision_providers

\* ---- outcomes of one outbound adapter call ----
\* "ok": 2xx with the expected body; "transport": the POST raises;
\* "status": raise_for_status raises; "malformed": the body lacks the
\* expected field; "cancel": the task is cancelled at the await.
ReturnKinds == {"ok", "transport", "status", "malformed"}
\* The exceptions that derive from Exception; asyncio.CancelledError derives
\* from BaseException only.
IsException(kind) == kind \in {"transport", "status", "malformed"}

VARIABLES
    today,       \* datetime.now().date()
    providers,   \* self.providers: name -> ProviderConfig
    pc,          \* task -> "idle" | "await"
    cls,         \* task -> request class of its routing call
    idx,         \* task -> position in the order of the awaited candidate
    trace,       \* task -> the candidates visited by its call, in order
    clean,       \* so far only route_text calls, made one after the other,
                 \* and no adapter call failed or was cancelled
    started,     \* number of routing calls started
    served,      \* provider -> routing calls that returned SUCCESS naming it
                 \* on the current date
    ret          \* what the step just taken returned to its caller, if it
                 \* returned: the outcome of a routing call that ended, or the
                 \* value of get_quota_status / get_recommended_provider

vars == <<today, providers, pc, cls, idx, trace, clean, started, served, ret>>

\* ---- ProviderConfig ----
ProviderConfig(name, key, limit, n, d) ==
    [ api_key        |-> key,
      provider_type  |-> provider_type(name),
      model          |-> provider_model(name),
      rate_limit     |-> limit,
      requests_today |-> n,
      last_reset     |-> d ]

\* variant: the comparison written `>=`, so that every access resets
_check_daily_reset_EveryAccess(P, now) ==
    [ name \in DOMAIN P |->
        IF now >= P[name].last_reset
        THEN [P[name] EXCEPT !.requests_today = 0, !.last_reset = now]
        ELSE P[name] ]

\* variant: the counter is cleared but last_reset keeps its old date
_check_daily_reset_KeepsDate(P, now) ==
    [ name \in DOMAIN P |->
        IF now > P[name].last_reset
        THEN [P[name] EXCEPT !.requests_today = 0]
        ELSE P[name] ]

\* ---- FreeAIRouter._check_daily_reset ----
_check_daily_reset(P, now) ==
    [ name \in DOMAIN P |->
        IF now > P[name].last_reset
        THEN [P[name] EXCEPT !.requests_today = 0, !.last_reset = now]
        ELSE P[name] ]

\* variant: the api_key test left out
_can_use_provider_NoKeyTest(P, name) ==
    IF name \notin DOMAIN P
    THEN FALSE
    ELSE IF TruthyInt(P[name].rate_limit)
            /\ P[name].requests_today >= P[name].rate_limit[1]
         THEN FALSE
         ELSE TRUE

\* variant: the limit compared with `>`
_can_use_provider_OffByOne(P, name) ==
    IF name \notin DOMAIN P \/ ~TruthyStr(P[name].api_key)
    THEN FALSE
    ELSE IF TruthyInt(P[name].rate_limit)
            /\ P[name].requests_today > P[name].rate_limit[1]
         THEN FALSE
         ELSE TRUE

\* ---- FreeAIRouter._can_use_provider ----
_can_use_provider(P, name) ==
    IF name \notin DOMAIN P \/ ~TruthyStr(P[name].api_key)
    THEN FALSE
    ELSE IF TruthyInt(P[name].rate_limit)
            /\ P[name].requests_today >= P[name].rate_limit[1]
         THEN FALSE
         ELSE TRUE

\* ---- results ----
Success(name, model) ==
    [ success |-> TRUE, error |-> None, provider |-> Some(name), model |-> model ]
Failure(err, prov) ==
    [ success |-> FALSE, error |-> Some(err), provider |-> prov, model |-> None ]
\* An exception that leaves the coroutine
Raised(kind) ==
    [ success |-> FALSE, error |-> Some(kind), provider |-> None,
      model |-> Some("raised") ]
IsRaised(r) == r.model = Some("raised")

\* ---- the adapters (_call_opencode_zen ... _call_groq_vision) ----
\* One POST; on "ok" the canonical success result, otherwise the exception.
TextAdapterModel(name) ==
    CASE name = "opencode_zen" -> provider_model(name)
      [] name = "mistral"      -> provider_model(name)
      [] name = "groq"         -> Some("llama-3.1-70b-versatile")
      [] name = "huggingface"  -> Some("Mistral-7B-Instruct")

VisionAdapterModel(name) ==
    CASE name = "gemini" -> Some("gemini-2.0-flash")
      [] name = "groq"   -> provider_model(name)

\* variant: `except httpx.HTTPError`, which a KeyError of the parse escapes
_call_text_provider_NarrowExcept(name, kind) ==
    IF name \in {"opencode_zen", "mistral", "groq", "huggingface"}
    THEN IF kind = "ok" THEN Success(name, TextAdapterModel(name))
         ELSE IF kind \in {"transport", "status"}
              THEN Failure(kind, Some(name))
         ELSE Raised(kind)
    ELSE Failure("Unknown provider", Some(name))

\* variant: `except BaseException`, which also catches the cancellation
_call_text_provider_CatchAll(name, kind) ==
    IF name \in {"opencode_zen", "mistral", "groq", "huggingface"}
    THEN IF kind = "ok" THEN Success(name, TextAdapterModel(name))
         ELSE Failure(kind, Some(name))
    ELSE Failure("Unknown provider", Some(name))

\* ---- FreeAIRouter._call_text_provider ----
_call_text_provider(name, kind) ==
    IF name \in {"opencode_zen", "mistral", "groq", "huggingface"}
    THEN IF kind = "ok" THEN Success(name, TextAdapterModel(name))
         ELSE IF IsException(kind) THEN Failure(kind, Some(name))
         ELSE Raised(kind)
    ELSE Failure("Unknown provider", Some(name))

\* ---- FreeAIRouter._call_vision_provider ----
_call_vision_provider(name, kind) ==
    IF name \in {"gemini", "groq"}
    THEN IF kind = "ok" THEN Success(name, VisionAdapterModel(name))
         ELSE IF IsException(kind) THEN Failure(kind, Some(name))
         ELSE Raised(kind)
    ELSE Failure("Unknown vision provider", Some(name))

CallProvider(c, name, kind) ==
    IF c = "text" THEN _call_text_provider(name, kind)
    ELSE _call_vision_provider(name, kind)

\* ---- the `continue` conditions of the two loops ----
RouteTextSkips(P, name) == ~_can_use_provider(P, name)

\* variant: route_vision without its provider_type test
RouteVisionSkips_NoTypeTest(P, name) ==
    \/ name \notin DOMAIN P
    \/ ~_can_use_provider(P, name)

RouteVisionSkips(P, name) ==
    \/ name \notin DOMAIN P
    \/ P[name].provider_type \notin {"vision", "both"}
    \/ ~_can_use_provider(P, name)

Skips(c, P, name) ==
    IF c = "text" THEN RouteTextSkips(P, name) ELSE RouteVisionSkips(P, name)

\* variant: the loop without its `continue` tests
NextCandidate_NoTest(c, P, i) == i

\* The loop from position i up to the first candidate that is not skipped:
\* the position of that candidate, or Len(order) + 1 when the loop ends.
RECURSIVE NextCandidate(_, _, _)
NextCandidate(c, P, i) ==
    IF i > Len(Order(c)) THEN i
    ELSE IF Skips(c, P, Order(c)[i]) THEN NextCandidate(c, P, i + 1)
    ELSE i

\* variant: the aggregate failure keeps the name of the last candidate
Exhausted_NamesLast(c) ==
    Failure("All providers failed or exhausted",
            Some(Order(c)[Len(Order(c))]))

\* The aggregate failure returned after the loop
Exhausted(c) ==
    IF c = "text"
    THEN Failure("All text providers failed or exhausted", None)
    ELSE Failure("All vision providers failed or exhausted", None)

\* ---- history kept for the properties ----
\* One entry per candidate the loop visited: whether _can_use_provider held
\* when the loop looked at it, and what became of it ("skipped", "pending"
\* while its adapter is awaited, "ok", "failed", "raised"); tag is the
\* provider identity carried by the adapter's result.
Visit(P, name, out) ==
    [ provider |-> name, admissible |-> _can_use_provider(P, name),
      outcome |-> out, tag |-> None ]
SkipEntries(c, P, from, to) ==
    [ k \in 1..(to - from) |-> Visit(P, Order(c)[from + k - 1], "skipped") ]
Settled(e, r) ==
    [ e EXCEPT !.outcome = IF IsRaised(r) THEN "raised"
                           ELSE IF r.success THEN "ok" ELSE "failed",
               !.tag = r.provider ]

\* a routing call that ended: its class, what the loop visited, and the
\* value it returned (or the exception that left it)
Ended(c, tr, r) ==
    [ op |-> "route", arg |-> c, value |-> [ trace |-> tr, result |-> r ] ]

OthersInFlight(t) == \E u \in Tasks \ {t} : pc[u] = "await"

\* ---- Init: the state after FreeAIRouter() ----
\* api_key is os.getenv(...): None when the variable is not set
Keys == {None, Some("sk")}

Init ==
    /\ today = 0
    /\ \E keys \in [ProviderNames -> Keys] :
         providers = [ name \in ProviderNames |->
             ProviderConfig(name, keys[name], provider_rate_limit(name), 0, 0) ]
    /\ pc = [t \in Tasks |-> "idle"]
    /\ cls = [t \in Tasks |-> "text"]
    /\ idx = [t \in Tasks |-> 0]
    /\ trace = [t \in Tasks |-> <<>>]
    /\ clean = TRUE
    /\ started = 0
    /\ served = [p \in ProviderNames |-> 0]
    /\ ret = None

\* the call of task t ends with r: the task is free again
Finish(t, c, tr, r) ==
    /\ pc' = [pc EXCEPT ![t] = "idle"]
    /\ cls' = [cls EXCEPT ![t] = "text"]
    /\ idx' = [idx EXCEPT ![t] = 0]
    /\ trace' = [trace EXCEPT ![t] = <<>>]
    /\ ret' = Some(Ended(c, tr, r))

\* ---- the loop of route_text / route_vision, from position i ----
\* P is the table the loop reads, tr the entries of the candidates visited
\* before i.  The loop runs to the next await or to the final return.
Sweep(t, c, P, i, tr) ==
    LET j == NextCandidate(c, P, i)
        tr2 == tr \o SkipEntries(c, P, i, j)
    IN  /\ providers' = P
        /\ IF j > Len(Order(c))
           THEN Finish(t, c, tr2, Exhausted(c))
           ELSE /\ pc' = [pc EXCEPT ![t] = "await"]
                /\ cls' = [cls EXCEPT ![t] = c]
                /\ idx' = [idx EXCEPT ![t] = j]
                /\ trace' = [trace EXCEPT ![t] =
                                Append(tr2, Visit(P, Order(c)[j], "pending"))]
                /\ ret' = None

\* ---- route_text / route_vision up to the first await ----
\* Tasks are interchangeable: a new call takes the lowest free task.
RouteStart(t, c) ==
    /\ pc[t] = "idle"
    /\ \A u \in Tasks : u < t => pc[u] = "await"
    /\ started < MaxCalls
    /\ started' = started + 1
    /\ clean' = (clean /\ c = "text" /\ ~OthersInFlight(t))
    /\ UNCHANGED <<today, served>>
    /\ Sweep(t, c, _check_daily_reset(providers, today), 1, <<>>)

route_text(t) == RouteStart(t, "text")

route_vision(t) == RouteStart(t, "vision")

\* variant: the success is also charged to the first candidate of the text
\* order
RecordIfSuccess_ChargesFirst(P, name, r) ==
    IF r.success
    THEN [P EXCEPT ![name].requests_today = @ + 1,
                   !["opencode_zen"].requests_today = @ + 1]
    ELSE P

\* variant: the counter written back from a value read before the await
\* (here the value at the start of the date)
RecordIfSuccess_StaleRead(P, name, r) ==
    IF r.success THEN [P EXCEPT ![name].requests_today = 0 + 1] ELSE P

\* variant: the increment outside the `if`
RecordIfSuccess_Always(P, name, r) ==
    [P EXCEPT ![name].requests_today = @ + 1]

\* ---- `if result["success"]: requests_today += 1` ----
RecordIfSuccess(P, name, r) ==
    IF r.success THEN [P EXCEPT ![name].requests_today = @ + 1] ELSE P

\* variant: after a failure the loop tries the same candidate again
Resume_Retry(t, kind) ==
    LET c == cls[t]
        name == Order(c)[idx[t]]
        r == CallProvider(c, name, kind)
        tr == [trace[t] EXCEPT ![Len(trace[t])] = Settled(@, r)]
    IN  /\ pc[t] = "await"
        /\ UNCHANGED <<today, started>>
        /\ served' = IF ~IsRaised(r) /\ r.success
                      THEN [served EXCEPT ![r.provider[1]] = @ + 1]
                      ELSE served
        /\ IF IsRaised(r)
           THEN /\ Finish(t, c, tr, r)
                /\ clean' = FALSE
                /\ UNCHANGED providers
           ELSE IF r.success
           THEN /\ providers' = RecordIfSuccess(providers, name, r)
                /\ Finish(t, c, tr, r)
                /\ clean' = clean
           ELSE /\ Sweep(t, c, RecordIfSuccess(providers, name, r),
                         idx[t], tr)
                /\ clean' = FALSE

\* ---- the awaited adapter call finishes ----
\* with a result or an exception of _call_*_provider
Resume(t, kind) ==
    LET c == cls[t]
        name == Order(c)[idx[t]]
        r == CallProvider(c, name, kind)
        tr == [trace[t] EXCEPT ![Len(trace[t])] = Settled(@, r)]
    IN  /\ pc[t] = "await"
        /\ UNCHANGED <<today, started>>
        /\ served' = IF ~IsRaised(r) /\ r.success
                      THEN [served EXCEPT ![r.provider[1]] = @ + 1]
                      ELSE served
        /\ IF IsRaised(r)
           THEN /\ Finish(t, c, tr, r)
                /\ clean' = FALSE
                /\ UNCHANGED providers
           ELSE IF r.success
           THEN /\ providers' = RecordIfSuccess(providers, name, r)
                /\ Finish(t, c, tr, r)
                /\ clean' = clean
           ELSE /\ Sweep(t, c, RecordIfSuccess(providers, name, r),
                         idx[t] + 1, tr)
                /\ clean' = FALSE

AdapterReturns(t) == \E kind \in ReturnKinds : Resume(t, kind)

\* ---- the task is cancelled while its adapter call is awaited ----
Cancel(t) == Resume(t, "cancel")

\* ---- FreeAIRouter.get_quota_status ----
IntV(n) == [ unlimited |-> FALSE, n |-> n ]
Unlimited == [ unlimited |-> TRUE, n |-> 0 ]

\* variant: `remaining` is the limit, whatever has been consumed
QuotaStatus_LimitAsRemaining(P) ==
    [ name \in DOMAIN P |->
        [ configured     |-> TruthyStr(P[name].api_key),
          type           |-> P[name].provider_type,
          requests_today |-> P[name].requests_today,
          rate_limit     |-> P[name].rate_limit,
          remaining      |-> IF TruthyInt(P[name].rate_limit)
                             THEN IntV(P[name].rate_limit[1])
                             ELSE Unlimited,
          available      |-> _can_use_provider(P, name) ] ]

QuotaStatus(P) ==
    [ name \in DOMAIN P |->
        [ configured     |-> TruthyStr(P[name].api_key),
          type           |-> P[name].provider_type,
          requests_today |-> P[name].requests_today,
          rate_limit     |-> P[name].rate_limit,
          remaining      |-> IF TruthyInt(P[name].rate_limit)
                             THEN IntV(P[name].rate_limit[1]
                                       - P[name].requests_today)
                             ELSE Unlimited,
          available      |-> _can_use_provider(P, name) ] ]

get_quota_status ==
    /\ providers' = _check_daily_reset(providers, today)
    /\ ret' = Some([ op |-> "quota_status", arg |-> "",
                     value |-> QuotaStatus(providers') ])
    /\ UNCHANGED <<today, pc, cls, idx, trace, clean, started, served>>

\* variant: the first key of the order, admissible or not
Recommend_NoTest(P, task_type, order, i) ==
    IF i > Len(order) THEN None ELSE Some(order[i])

\* ---- FreeAIRouter.get_recommended_provider ----
RECURSIVE Recommend(_, _, _, _)
Recommend(P, task_type, order, i) ==
    IF i > Len(order) THEN None
    ELSE IF _can_use_provider(P, order[i])
            /\ ~(task_type = "vision"
                 /\ P[order[i]].provider_type \notin {"vision", "both"})
         THEN Some(order[i])
         ELSE Recommend(P, task_type, order, i + 1)

\* variant: the text order of get_recommended_provider begins with groq
RecommendedProvider_OtherOrder(P, task_type) ==
    Recommend(P, task_type,
              IF task_type = "text"
              THEN <<"groq", "opencode_zen", "mistral", "huggingface">>
              ELSE <<"gemini", "groq">>,
              1)

RecommendedProvider(P, task_type) ==
    Recommend(P, task_type,
              IF task_type = "text"
              THEN <<"opencode_zen", "mistral", "groq", "huggingface">>
              ELSE <<"gemini", "groq">>,
              1)

get_recommended_provider ==
    /\ providers' = _check_daily_reset(providers, today)
    /\ \E task_type \in Classes :
         ret' = Some([ op |-> "recommended", arg |-> task_type,
                       value |-> RecommendedProvider(providers', task_type) ])
    /\ UNCHANGED <<today, pc, cls, idx, trace, clean, started, served>>

\* ---- the calendar date advances ----
Midnight ==
    /\ today < MaxDay
    /\ today' = today + 1
    /\ served' = [p \in ProviderNames |-> 0]
    /\ ret' = None
    /\ UNCHANGED <<providers, pc, cls, idx, trace, clean, started>>

Next ==
    \/ \E t \in Tasks : route_text(t)
    \/ \E t \in Tasks : route_vision(t)
    \/ \E t \in Tasks : AdapterReturns(t)
    \/ \E t \in Tasks : Cancel(t)
    \/ get_quota_status
    \/ get_recommended_provider
    \/ Midnight

Spec == Init /\ [][Next]_vars

(***************************************************************************)
(* The routing calls when every adapter invocation returns: no task is     *)
(* cancelled, and an awaited adapter call eventually finishes.             *)
(***************************************************************************)
NextReturning ==
    \/ \E t \in Tasks : route_text(t)
    \/ \E t \in Tasks : route_vision(t)
    \/ \E t \in Tasks : AdapterReturns(t)
    \/ get_quota_status
    \/ get_recommended_provider
    \/ Midnight

FairSpec ==
    /\ Init
    /\ [][NextReturning]_vars
    /\ \A t \in Tasks : WF_vars(AdapterReturns(t))

(***************************************************************************)
(* _can_use_provider as a function of its inputs: one entry of the table   *)
(* holds any credential, limit, counter and last reset date.               *)
(***************************************************************************)
AdmitMaxLimit == 2
AdmitMaxCount == 3

AdmitKeys == {None, Some(""), Some("sk")}
AdmitLimits == {None} \cup { Some(n) : n \in 0..AdmitMaxLimit }

InitAdmit ==
    /\ today \in Days
    /\ \E p \in ProviderNames, key \in AdmitKeys, lim \in AdmitLimits,
          n \in 0..AdmitMaxCount, d \in 0..today :
         providers = [ name \in ProviderNames |->
             IF name = p THEN ProviderConfig(name, key, lim, n, d)
             ELSE ProviderConfig(name, Some("sk"), provider_rate_limit(name),
                                 0, today) ]
    /\ pc = [t \in Tasks |-> "idle"]
    /\ cls = [t \in Tasks |-> "text"]
    /\ idx = [t \in Tasks |-> 0]
    /\ trace = [t \in Tasks |-> <<>>]
    /\ clean = TRUE
    /\ started = 0
    /\ served = [p \in ProviderNames |-> 0]
    /\ ret = None

CanUseCall ==
    /\ \E name \in ProviderNames \cup {"unknown"} :
         ret' = Some([ op |-> "can_use", arg |-> name,
                       value |-> _can_use_provider(providers, name) ])
    /\ UNCHANGED <<today, providers, pc, cls, idx, trace, clean, started, served>>

NextAdmit == CanUseCall

SpecAdmit == InitAdmit /\ [][NextAdmit]_vars

(***************************************************************************)
(* Properties                                                              *)
(***************************************************************************)
requests_today(p) == providers[p].requests_today
last_reset(p) == providers[p].last_reset

\* the step just taken ended a routing call
Routed == ret # None /\ ret[1].op = "route"
\* ... which returned a value (no exception left it)
Returned == Routed /\ ~IsRaised(ret[1].value.result)
\* ... which returned SUCCESS
Succeeded == Returned /\ ret[1].value.result.success
\* ... which returned a failure
Failed == Returned /\ ~ret[1].value.result.success

InFlight == { t \in Tasks : pc[t] = "await" }

\* the entries follow the class's order, one per position
InOrder(c, tr) ==
    /\ Len(tr) <= Len(Order(c))
    /\ \A k \in 1..Len(tr) : tr[k].provider = Order(c)[k]

Outcomes(tr) == { tr[k].outcome : k \in 1..Len(tr) }

\* C1: a routing call returns SUCCESS naming the first candidate of the
\* class's order that was admissible and whose adapter succeeded: every
\* candidate before it was looked at in order and was either inadmissible
\* (skipped, not invoked) or invoked and failed, a candidate is invoked
\* exactly when it is admissible, and the success ends the call, so that
\* no later candidate is visited.
C1_FirstSuccessWins ==
    /\ \A t \in Tasks : pc[t] = "await" =>
          /\ InOrder(cls[t], trace[t])
          /\ idx[t] = Len(trace[t])
          /\ \A k \in 1..Len(trace[t]) :
                LET e == trace[t][k] IN
                /\ (e.outcome # "skipped") <=> e.admissible
                /\ (e.outcome = "pending") <=> (k = Len(trace[t]))
                /\ e.outcome \in {"skipped", "failed", "pending"}
    /\ Succeeded =>
          LET tr == ret[1].value.trace
              n == Len(tr)
          IN  /\ n >= 1
              /\ InOrder(ret[1].arg, tr)
              /\ tr[n].admissible /\ tr[n].outcome = "ok"
              /\ ret[1].value.result.provider = Some(tr[n].provider)
              /\ \A k \in 1..(n - 1) :
                    \/ tr[k].outcome = "skipped" /\ ~tr[k].admissible
                    \/ tr[k].outcome = "failed" /\ tr[k].admissible

\* a SUCCESS that followed a skipped and a failed candidate
C1_Witness ==
    /\ Succeeded
    /\ Len(ret[1].value.trace) >= 3
    /\ {"skipped", "failed"} \subseteq Outcomes(ret[1].value.trace)

\* C2 (as claimed): the counter of a provider with a daily limit never
\* exceeds that limit, whatever the interleaving of the routing calls.
C2_LimitNeverExceeded ==
    \A p \in ProviderNames :
        providers[p].rate_limit # None
        => requests_today(p) <= providers[p].rate_limit[1]

\* the step of task t that ends its awaited attempt
Moved(t) == pc[t] = "await" /\ idx'[t] # idx[t]
TraceAfter(t) == IF pc'[t] = "await" THEN trace'[t] ELSE ret'[1].value.trace
Awaited(t) == Order(cls[t])[idx[t]]

\* C3: an attempt that fails leaves the counter of its provider as it was;
\* a counter grows only in the step in which the adapter of its provider
\* succeeds (so the counter of a provider whose adapter always fails stays
\* where it was, at 0 from the start); and a text call whose only invoked
\* candidate fails returns the aggregate failure.
C3_FailureConsumesNothing ==
    /\ [](\A p \in ProviderNames :
            ( /\ Returned /\ ret[1].arg = "text"
              /\ \A k \in 1..Len(ret[1].value.trace) :
                    LET e == ret[1].value.trace[k] IN
                    IF e.provider = p THEN e.outcome = "failed"
                    ELSE e.outcome = "skipped" )
            => /\ ~ret[1].value.result.success
               /\ ret[1].value.result.provider = None)
    /\ [][\A t \in Tasks :
            (Moved(t) /\ TraceAfter(t)[idx[t]].outcome = "failed")
            => providers'[Awaited(t)].requests_today
                 = providers[Awaited(t)].requests_today]_vars
    /\ [][\A p \in ProviderNames :
            providers'[p].requests_today > requests_today(p)
            => \E t \in Tasks :
                 /\ Moved(t) /\ Awaited(t) = p
                 /\ TraceAfter(t)[idx[t]].outcome = "ok"]_vars

\* routeText with one credentialed candidate, whose adapter failed
C3_Witness ==
    /\ Failed /\ ret[1].arg = "text"
    /\ \E p \in ProviderNames :
          /\ \A q \in ProviderNames :
                TruthyStr(providers[q].api_key) <=> (q = p)
          /\ \E k \in 1..Len(ret[1].value.trace) :
                /\ ret[1].value.trace[k].provider = p
                /\ ret[1].value.trace[k].outcome = "failed"
          /\ requests_today(p) = 0

\* C4: a call returns the aggregate failure exactly when no candidate
\* succeeded; the failure names no provider, every candidate of the order
\* was then either skipped as inadmissible or invoked and failed, and each
\* failed attempt's own result carried the identity of its provider.
C4_ExhaustedNamesNobody ==
    Returned =>
      LET tr == ret[1].value.trace
          r == ret[1].value.result
      IN  /\ (~r.success) <=> ("ok" \notin Outcomes(tr))
          /\ (~r.success) =>
                /\ r.provider = None
                /\ r.error # None
                /\ r.model = None
                /\ Len(tr) = Len(Order(ret[1].arg))
                /\ InOrder(ret[1].arg, tr)
                /\ \A k \in 1..Len(tr) :
                      \/ tr[k].outcome = "skipped" /\ ~tr[k].admissible
                                                  /\ tr[k].tag = None
                      \/ tr[k].outcome = "failed"
                            /\ tr[k].tag = Some(tr[k].provider)

\* an aggregate failure after a skipped and a failed candidate
C4_Witness ==
    /\ Failed
    /\ {"skipped", "failed"} \subseteq Outcomes(ret[1].value.trace)

\* the credentialed providers that carry a daily limit
Metered == { p \in ProviderNames :
               /\ TruthyStr(providers[p].api_key)
               /\ providers[p].rate_limit # None }
Quota(p) == providers[p].rate_limit[1]

\* the step runs _check_daily_reset: it starts a routing call or is one of
\* the two queries
RunsReset ==
    \/ started' # started
    \/ ret' # None /\ ret'[1].op \in {"quota_status", "recommended"}

CredentialPresent(name) == providers[name].api_key \notin {None, Some("")}

Asked == ret # None /\ ret[1].op = "can_use"

\* C6: a provider with no credential is inadmissible, whatever its
\* counter, its limit and its last reset date are.
C6_NoCredentialInadmissible ==
    \A name \in ProviderNames :
        ~CredentialPresent(name) =>
            /\ ~_can_use_provider(providers, name)
            /\ (Asked /\ ret[1].arg = name) => ~ret[1].value

\* no credential, quota left, the reset of an earlier date
C6_Witness ==
    /\ Asked /\ ret[1].arg \in ProviderNames
    /\ ~CredentialPresent(ret[1].arg) /\ ~ret[1].value
    /\ providers[ret[1].arg].rate_limit = Some(2)
    /\ providers[ret[1].arg].requests_today = 1
    /\ providers[ret[1].arg].last_reset < today

\* C7 (as claimed): _can_use_provider is false exactly when the provider is
\* unknown, or has no credential, or has a limit set and a counter that has
\* reached it.
C7_AdmissibleExactly ==
    Asked =>
        LET name == ret[1].arg IN
        ret[1].value =
            ~ ( \/ name \notin DOMAIN providers
                \/ ~CredentialPresent(name)
                \/ /\ providers[name].rate_limit # None
                   /\ providers[name].requests_today
                        >= providers[name].rate_limit[1] )

\* the first admissible candidate of the router's order for the class
FirstAdmissible(c) ==
    LET S == { i \in 1..Len(Order(c)) :
                 _can_use_provider(providers, Order(c)[i]) }
    IN  IF S = {} THEN None
        ELSE Some(Order(c)[CHOOSE i \in S : \A j \in S : i <= j])

Recommended == ret # None /\ ret[1].op = "recommended"

\* C8: get_recommended_provider returns the first admissible candidate of
\* the class's order, or None when there is none; for "vision" the key it
\* returns is a provider of type vision or both (groq when gemini is
\* inadmissible and groq admissible); the call starts no routing call and
\* invokes no adapter.
C8_RecommendedIsFirstAdmissible ==
    /\ [](Recommended =>
            /\ ret[1].value = FirstAdmissible(ret[1].arg)
            /\ (ret[1].arg = "vision" /\ ret[1].value # None)
                 => providers[ret[1].value[1]].provider_type
                      \in {"vision", "both"}
            /\ ( /\ ret[1].arg = "vision"
                 /\ ~_can_use_provider(providers, "gemini")
                 /\ _can_use_provider(providers, "groq") )
                 => ret[1].value = Some("groq"))
    /\ [][(ret' # None /\ ret'[1].op = "recommended")
            => UNCHANGED <<pc, cls, idx, trace, started>>]_vars

\* gemini has used up its quota, groq is recommended for vision
C8_Witness ==
    /\ Recommended /\ ret[1].arg = "vision" /\ ret[1].value = Some("groq")
    /\ TruthyStr(providers["gemini"].api_key)
    /\ requests_today("gemini") >= Quota("gemini")

\* The scenario of C9 in the router's table: of the text order only groq (A,
\* limited) and huggingface (B, unlimited) have a credential; the calls so
\* far were routeText calls made one after the other on the date of
\* construction, and no adapter call failed.
C9_Scenario ==
    /\ \A p \in {"opencode_zen", "mistral"} : ~TruthyStr(providers[p].api_key)
    /\ \A p \in {"groq", "huggingface"} : TruthyStr(providers[p].api_key)
    /\ clean /\ today = 0

\* the calls that have ended, when none was cancelled
Ended_n == started - Cardinality(InFlight)
Min(a, b) == IF a <= b THEN a ELSE b

QuotaReported == ret # None /\ ret[1].op = "quota_status"

\* C9: in that scenario the k-th call is served by A while k is at most A's
\* limit and by B afterwards (A, B, B for limit 1): the call that just ended
\* is the started-th, and the counters of A and B count the calls each has
\* served; once A's limit is reached get_quota_status reports remaining 0
\* for A and "unlimited" for B.
C9_QuotaFallback ==
    C9_Scenario =>
        /\ Routed =>
              /\ Succeeded /\ InFlight = {}
              /\ ret[1].value.result.provider =
                    IF started <= Quota("groq") THEN Some("groq")
                    ELSE Some("huggingface")
        /\ requests_today("groq") = Min(Ended_n, Quota("groq"))
        /\ requests_today("huggingface") = Ended_n - Min(Ended_n, Quota("groq"))
        /\ (QuotaReported /\ Ended_n >= Quota("groq")) =>
              /\ ret[1].value["groq"].remaining = IntV(0)
              /\ ret[1].value["huggingface"].remaining = Unlimited

\* the status read after the three calls
C9_Witness ==
    /\ C9_Scenario /\ QuotaReported /\ started = 3 /\ InFlight = {}
    /\ requests_today("groq") = 1 /\ requests_today("huggingface") = 2
    /\ ret[1].value["groq"].remaining = IntV(0)
    /\ ret[1].value["huggingface"].remaining = Unlimited

\* C10: when every adapter invocation returns, a routing call that awaits
\* an adapter eventually ends, and every call that ends returned a value:
\* a SUCCESS naming a provider or the aggregate failure, never an exception.
C10_EveryCallResolves ==
    /\ \A t \in Tasks : (pc[t] = "await") ~> (pc[t] = "idle")
    /\ [](Routed =>
            /\ ~IsRaised(ret[1].value.result)
            /\ \/ /\ ret[1].value.result.success
                  /\ ret[1].value.result.provider # None
               \/ ret[1].value.result = Exhausted(ret[1].arg))

\* a call that ended in the aggregate failure after the adapters of two
\* candidates had failed
C10_Witness ==
    /\ Failed
    /\ Cardinality({ k \in 1..Len(ret[1].value.trace) :
                       ret[1].value.trace[k].outcome = "failed" }) >= 2

\* C11: the step in which a routing call is cancelled while its adapter call
\* is awaited ends the call at once: the exception leaves the call (it is
\* not a failure result), the attempt is recorded as neither failed nor
\* successful, the loop visits no candidate after the cancelled one, no
\* counter changes, and no other call is touched.
C11_CancelEndsSweep ==
    /\ [](( Routed /\ IsRaised(ret[1].value.result) ) =>
            LET tr == ret[1].value.trace IN
            /\ Len(tr) >= 1
            /\ tr[Len(tr)].outcome = "raised"
            /\ \A k \in 1..(Len(tr) - 1) : tr[k].outcome \in {"skipped", "failed"})
    /\ [][\A t \in Tasks : Cancel(t) =>
            /\ providers' = providers
            /\ served' = served
            /\ pc'[t] = "idle"
            /\ \A u \in Tasks \ {t} : pc'[u] = pc[u] /\ idx'[u] = idx[u]
            /\ ret' # None /\ ret'[1].op = "route"
            /\ IsRaised(ret'[1].value.result)
            /\ Len(ret'[1].value.trace) = idx[t]
            /\ ret'[1].value.trace[idx[t]].outcome = "raised"]_vars

\* a call cancelled at its first invoked candidate although a later
\* candidate of its order is admissible
C11_Witness ==
    /\ Routed /\ IsRaised(ret[1].value.result)
    /\ LET tr == ret[1].value.trace
           order == Order(ret[1].arg)
       IN  /\ Len(tr) < Len(order)
           /\ \A k \in 1..(Len(tr) - 1) : tr[k].outcome = "skipped"
           /\ \E k \in (Len(tr) + 1)..Len(order) :
                  ~Skips(ret[1].arg, providers, order[k])
           /\ requests_today(tr[Len(tr)].provider) = 0

\* C12: the date never runs backwards, and for every provider: an operation
\* (route_text, route_vision, get_quota_status, get_recommended_provider)
\* leaves the last reset at the current date, clearing the counter when the
\* date has changed since the last reset (no transition followed by an
\* operation is left without its reset); a step taken when the last reset is
\* of the current date neither moves the last reset nor lowers the counter
\* (no second reset on one date); and a counter is lowered only by that
\* reset, to 0.
C12_ResetOncePerDate ==
    /\ [](\A p \in ProviderNames : last_reset(p) <= today)
    /\ [][today' >= today]_vars
    /\ [][\A p \in ProviderNames :
            /\ RunsReset => providers'[p].last_reset = today'
            /\ (RunsReset /\ last_reset(p) < today)
                  => providers'[p].requests_today = 0
            /\ last_reset(p) = today
                  => /\ providers'[p].last_reset = last_reset(p)
                     /\ providers'[p].requests_today >= requests_today(p)
            /\ providers'[p].requests_today < requests_today(p)
                  => /\ RunsReset /\ last_reset(p) < today
                     /\ providers'[p].requests_today = 0]_vars

\* groq, the only text candidate with a credential, served the first call;
\* the date changed and get_quota_status, which ran the reset, reports 0
C12_Witness ==
    /\ QuotaReported /\ clean /\ started >= 1 /\ InFlight = {}
    /\ TruthyStr(providers["groq"].api_key)
    /\ \A q \in {"opencode_zen", "mistral", "huggingface"} :
          ~TruthyStr(providers[q].api_key)
    /\ today > 0 /\ last_reset("groq") = today
    /\ ret[1].value["groq"].requests_today = 0
    /\ served["groq"] = 0

\* the class of the call of task t covers the capability of provider p
Capable(c, p) ==
    providers[p].provider_type \in (IF c = "text" THEN {"text", "both"}
                                    ELSE {"vision", "both"})

\* C13 (as claimed): the admissibility checks that follow a suspended
\* adapter call read a counter that belongs to the current date: a
\* candidate that has a credential and the capability of the class is
\* skipped by such a check only on a counter whose last reset is of the
\* current date, never on the exhausted counter of an earlier date.
C13_ResetBeforeEveryCheck ==
    [][\A t \in Tasks : Moved(t) =>
          \A k \in (idx[t] + 1)..Len(TraceAfter(t)) :
              LET p == TraceAfter(t)[k].provider IN
              ( /\ TraceAfter(t)[k].outcome = "skipped"
                /\ TruthyStr(providers[p].api_key)
                /\ Capable(cls[t], p) )
              => providers'[p].last_reset = today']_vars

\* the step is a call of get_quota_status or get_recommended_provider
AuxStep == ret' # None /\ ret'[1].op \in {"quota_status", "recommended"}

\* C14: a call of get_quota_status or get_recommended_provider starts no
\* routing call and invokes no adapter (no task's position changes); of the
\* table it changes at most what the lazy reset changes, the counter and
\* the last reset date of a provider whose last reset precedes the current
\* date; a provider whose reset has been applied for the current date is
\* left as it was.
C14_AuxReadOnly ==
    [][AuxStep =>
         /\ UNCHANGED <<today, pc, cls, idx, trace, started, served>>
         /\ \A p \in ProviderNames :
               /\ providers'[p].api_key = providers[p].api_key
               /\ providers'[p].provider_type = providers[p].provider_type
               /\ providers'[p].model = providers[p].model
               /\ providers'[p].rate_limit = providers[p].rate_limit
               /\ IF last_reset(p) = today
                  THEN providers'[p] = providers[p]
                  ELSE /\ providers'[p].requests_today = 0
                       /\ providers'[p].last_reset = today]_vars

\* get_recommended_provider was called while a routing call awaits its
\* adapter, on a date later than the construction whose reset had been
\* applied: a counter in use on that date is still there
C14_Witness ==
    /\ Recommended /\ today > 0 /\ InFlight # {}
    /\ \E p \in ProviderNames :
          requests_today(p) > 0 /\ last_reset(p) = today

\* C15: what get_quota_status returns has one entry per provider of the
\* table, with: configured exactly when a credential is present; the
\* consumed count equal to the counter; remaining equal to the limit minus
\* the counter when a limit is set, and "unlimited" exactly when none is
\* set; available equal to _can_use_provider; type and limit as in the
\* table.
C15_QuotaStatusFaithful ==
    QuotaReported =>
        /\ DOMAIN ret[1].value = ProviderNames
        /\ \A p \in ProviderNames :
              LET e == ret[1].value[p] IN
              /\ e.configured <=> CredentialPresent(p)
              /\ e.type = providers[p].provider_type
              /\ e.requests_today = requests_today(p)
              /\ e.rate_limit = providers[p].rate_limit
              /\ providers[p].rate_limit # None =>
                    e.remaining = IntV(providers[p].rate_limit[1]
                                       - requests_today(p))
              /\ (e.remaining = Unlimited) <=> (providers[p].rate_limit = None)
              /\ e.available <=> _can_use_provider(providers, p)

\* a status with a limited provider that has used its quota, an unlimited
\* one that has served a call, and a provider without a credential
C15_Witness ==
    /\ QuotaReported
    /\ ret[1].value["groq"].remaining = IntV(0)
    /\ ret[1].value["groq"].configured /\ ~ret[1].value["groq"].available
    /\ \E p \in ProviderNames :
          /\ ret[1].value[p].remaining = Unlimited
          /\ ret[1].value[p].requests_today > 0
          /\ ret[1].value[p].available
    /\ \E p \in ProviderNames : ~ret[1].value[p].configured

\* the candidates whose adapter the call invoked
Invoked(tr) == { tr[k].provider : k \in { j \in 1..Len(tr) :
                                          tr[j].outcome # "skipped" } }

\* C16: every provider of the text order has capability text or both and
\* every provider of the vision order vision or both; the adapter a call
\* awaits, and every adapter a call that ended had invoked, is of a
\* provider whose capability covers the call's class; and the test of
\* route_vision skips a text-only provider, admissible or not.
C16_CapabilityRespected ==
    /\ \A c \in Classes : \A i \in 1..Len(Order(c)) : Capable(c, Order(c)[i])
    /\ \A t \in InFlight : Capable(cls[t], Order(cls[t])[idx[t]])
    /\ Routed => \A p \in Invoked(ret[1].value.trace) : Capable(ret[1].arg, p)
    /\ \A p \in ProviderNames :
          providers[p].provider_type = "text" => RouteVisionSkips(providers, p)

\* a vision call awaits groq, gemini being without a credential, while a
\* text-only provider is admissible
C16_Witness ==
    /\ \E t \in InFlight :
          /\ cls[t] = "vision" /\ Order("vision")[idx[t]] = "groq"
          /\ trace[t][1].outcome = "skipped"
    /\ \E p \in ProviderNames :
          /\ providers[p].provider_type = "text"
          /\ _can_use_provider(providers, p)

Pending(tr) == { k \in 1..Len(tr) : tr[k].outcome = "pending" }

\* C17: a call has at most one adapter invocation in flight, the one of the
\* last candidate it visited; the candidates it has visited are the first
\* ones of the class's order, each once and in that order (no provider
\* occurs twice in an order); every candidate before the one attempted was
\* skipped or had failed; and a step of a call that goes on moves it to a
\* later position, after the failure of the attempt it awaited, and
\* leaves what was recorded of the earlier candidates as it was.
C17_SequentialNoRetry ==
    /\ [](\A c \in Classes : \A i, j \in 1..Len(Order(c)) :
            Order(c)[i] = Order(c)[j] => i = j)
    /\ [](\A t \in Tasks :
            IF pc[t] = "await"
            THEN /\ Pending(trace[t]) = {Len(trace[t])}
                 /\ idx[t] = Len(trace[t])
                 /\ InOrder(cls[t], trace[t])
                 /\ \A k \in 1..(idx[t] - 1) :
                       trace[t][k].outcome \in {"skipped", "failed"}
            ELSE trace[t] = <<>>)
    /\ [](Routed =>
            /\ Pending(ret[1].value.trace) = {}
            /\ InOrder(ret[1].arg, ret[1].value.trace)
            /\ \A k \in 1..(Len(ret[1].value.trace) - 1) :
                  ret[1].value.trace[k].outcome \in {"skipped", "failed"})
    /\ [][\A t \in Tasks : (pc[t] = "await" /\ pc'[t] = "await") =>
            \/ idx'[t] = idx[t] /\ trace'[t] = trace[t]
            \/ /\ idx'[t] > idx[t]
               /\ trace'[t][idx[t]].outcome = "failed"
               /\ \A k \in 1..(idx[t] - 1) : trace'[t][k] = trace[t][k]]_vars

\* a text call awaits its fourth candidate after a skipped and a failed one
C17_Witness ==
    \E t \in InFlight :
        /\ cls[t] = "text" /\ idx[t] = 4
        /\ {"skipped", "failed"} \subseteq Outcomes(trace[t])

\* C18: the step in which a call returns SUCCESS raises the counter of the
\* provider the outcome names, which is the provider whose adapter was
\* awaited, by exactly 1 and changes nothing else of the table; the other
\* steps of a call change no counter, except that its first step applies
\* the lazy reset.
C18_SuccessChargesOne ==
    [][/\ \A t \in Tasks : Moved(t) =>
             IF /\ pc'[t] = "idle"
                /\ ~IsRaised(ret'[1].value.result)
                /\ ret'[1].value.result.success
             THEN /\ ret'[1].value.result.provider = Some(Awaited(t))
                  /\ providers' =
                        [providers EXCEPT ![Awaited(t)].requests_today = @ + 1]
             ELSE providers' = providers
       /\ started' # started =>
             \A p \in ProviderNames :
                 providers'[p].requests_today =
                     IF last_reset(p) < today THEN 0 ELSE requests_today(p)]_vars

\* a SUCCESS of the third or a later candidate, after a failed attempt: the
\* counter of the provider that failed is still 0
C18_Witness ==
    /\ Succeeded
    /\ LET tr == ret[1].value.trace IN
       /\ Len(tr) >= 3
       /\ requests_today(tr[Len(tr)].provider) = 1
       /\ \E k \in 1..(Len(tr) - 1) :
             /\ tr[k].outcome = "failed"
             /\ requests_today(tr[k].provider) = 0
       /\ \E k \in 1..(Len(tr) - 1) : tr[k].outcome = "skipped"

\* C19: on the date of construction, whatever the interleaving of the
\* route_text and route_vision calls made so far, the counter of every
\* provider (0 at the start) equals the number of calls that returned
\* SUCCESS naming it; this holds in every state, and so when all calls
\* have returned.
C19_NoLostUpdate ==
    today = 0 =>
        \A p \in ProviderNames : requests_today(p) = served[p]

\* all calls have returned and groq has served two of them, more than its
\* limit allows to calls made one after the other: two calls had groq's
\* adapter in flight together, and both uses are counted
C19_Witness ==
    /\ today = 0 /\ InFlight = {}
    /\ requests_today("groq") = Quota("groq") + 1
    /\ served["groq"] = Quota("groq") + 1

\* the task a routing call started now runs on
Starter == CHOOSE t \in Tasks :
               pc[t] = "idle" /\ \A u \in Tasks : u < t => pc[u] = "await"

\* C20: when get_recommended_provider(c) has just returned and the next
\* step, on the same date, starts a routing call of class c: it returned
\* key k exactly when the call skips every candidate before k and invokes
\* the adapter of k first, and it returned None exactly when the call
\* returns the aggregate failure having invoked no adapter.
C20_RecommendedAgreesWithRouting ==
    [][( /\ Recommended
         /\ started' # started
         /\ ret[1].arg = (IF pc'[Starter] = "await" THEN cls'[Starter]
                          ELSE ret'[1].arg) ) =>
        LET t == Starter
            c == ret[1].arg
            k == ret[1].value
        IN  /\ today' = today
            /\ (k # None) <=> (pc'[t] = "await")
            /\ pc'[t] = "await" =>
                  /\ Order(c)[idx'[t]] = k[1]
                  /\ trace'[t][idx'[t]].outcome = "pending"
                  /\ \A i \in 1..(idx'[t] - 1) :
                        trace'[t][i].outcome = "skipped"
            /\ (k = None) <=>
                  /\ pc'[t] = "idle"
                  /\ ret' # None /\ ret'[1].op = "route"
                  /\ ret'[1].value.result = Exhausted(c)
                  /\ Invoked(ret'[1].value.trace) = {}]_vars

\* get_recommended_provider("text") has returned groq, the third of the
\* order, while another call is in flight, and a routing call can start
C20_Witness ==
    /\ Recommended /\ ret[1].arg = "text" /\ ret[1].value = Some("groq")
    /\ InFlight # {} /\ InFlight # Tasks /\ started < MaxCalls
    /\ ENABLED route_text(Starter)

====
